---- MODULE Spec2Model ----
(***************************************************************************)
(* The fetch-based API client of Skilljudgeaiuidesign/src/api/api.js:      *)
(* uploadResume, analyzeRole and safeParse, with the platform functions    *)
(* they rest on (fetch, Response.text, JSON.parse, Object.keys, property   *)
(* access, String conversion).                                             *)
(*                                                                         *)
(* Text (a response body, an error message, a URL) is a sequence of        *)
(* lexemes; a lexeme is a record [c |-> class, s |-> spelling].  The       *)
(* empty string is the empty sequence.                                     *)
(***************************************************************************)
EXTENDS Integers, Sequences, FiniteSets, TLC

\* ------------------------------------------------------------------ bounds
\* Every text of at most MaxBodyLen lexemes over Alphabet is a response body.
MaxBodyLen == 3
\* The caller invokes the client at most MaxInvocations times.
MaxInvocations == 2
\* At most MaxCalls calls of the client are in flight at the same time.
MaxCalls == 2
\* The longest excerpt of a response body an error message may carry; a lexeme
\* is at least one character.
ExcerptMax == 200
\* The history stack keeps its last MaxEntries entries.
MaxEntries == 2

\* ------------------------------------------------------------------ text
Punct(s) == [c |-> "punct", s |-> s]
Str(s) == [c |-> "str", s |-> s]
Num(s) == [c |-> "num", s |-> s]
Lit(s) == [c |-> "lit", s |-> s]
Txt(s) == [c |-> "txt", s |-> s]
WS == [c |-> "ws", s |-> " "]

LBrace == Punct("{")
RBrace == Punct("}")
LBracket == Punct("[")
RBracket == Punct("]")
Colon == Punct(":")
Comma == Punct(",")

Contains(text, lexeme) == \E i \in 1..Len(text) : text[i] = lexeme

\* ------------------------------------------------------------------ JS values
JUndefined == [t |-> "undefined", s |-> "", kids |-> <<>>]
JNull == [t |-> "null", s |-> "null", kids |-> <<>>]
JBool(s) == [t |-> "bool", s |-> s, kids |-> <<>>]
JNum(s) == [t |-> "num", s |-> s, kids |-> <<>>]
JStr(s) == [t |-> "str", s |-> s, kids |-> <<>>]
JArr(kids) == [t |-> "arr", s |-> "", kids |-> kids]
JObj(kids) == [t |-> "obj", s |-> "", kids |-> kids]
Kid(k, v) == [k |-> k, v |-> v]

\* ------------------------------------------------------------------ JSON.parse
RECURSIVE ParseValue(_, _)
RECURSIVE ParseElements(_, _, _)
RECURSIVE ParseMembers(_, _, _)

ParseFail == [ok |-> FALSE, v |-> JUndefined, n |-> 0]
ParseOk(v, n) == [ok |-> TRUE, v |-> v, n |-> n]

\* One JSON value starting at token i; n is the index after it.
ParseValue(toks, i) ==
  IF i > Len(toks) THEN ParseFail
  ELSE LET t == toks[i] IN
    CASE t.c = "lit" -> ParseOk(IF t.s = "null" THEN JNull ELSE JBool(t.s), i + 1)
      [] t.c = "num" -> ParseOk(JNum(t.s), i + 1)
      [] t.c = "str" -> ParseOk(JStr(t.s), i + 1)
      [] t = LBracket ->
           IF i + 1 <= Len(toks) /\ toks[i + 1] = RBracket
             THEN ParseOk(JArr(<<>>), i + 2)
             ELSE ParseElements(toks, i + 1, <<>>)
      [] t = LBrace ->
           IF i + 1 <= Len(toks) /\ toks[i + 1] = RBrace
             THEN ParseOk(JObj(<<>>), i + 2)
             ELSE ParseMembers(toks, i + 1, <<>>)
      [] OTHER -> ParseFail

\* value ("," value)* "]"
ParseElements(toks, i, acc) ==
  LET r == ParseValue(toks, i) IN
  IF ~r.ok \/ r.n > Len(toks) THEN ParseFail
  ELSE IF toks[r.n] = RBracket THEN ParseOk(JArr(Append(acc, Kid("", r.v))), r.n + 1)
  ELSE IF toks[r.n] = Comma THEN ParseElements(toks, r.n + 1, Append(acc, Kid("", r.v)))
  ELSE ParseFail

\* string ":" value ("," string ":" value)* "}"
ParseMembers(toks, i, acc) ==
  IF i + 1 > Len(toks) \/ toks[i].c # "str" \/ toks[i + 1] # Colon THEN ParseFail
  ELSE LET r == ParseValue(toks, i + 2) IN
    IF ~r.ok \/ r.n > Len(toks) THEN ParseFail
    ELSE IF toks[r.n] = RBrace
      THEN ParseOk(JObj(Append(acc, Kid(toks[i].s, r.v))), r.n + 1)
    ELSE IF toks[r.n] = Comma
      THEN ParseMembers(toks, r.n + 1, Append(acc, Kid(toks[i].s, r.v)))
    ELSE ParseFail

IsNotWS(x) == x.c # "ws"

\* JSON.parse(text): whitespace between tokens is skipped; one value, then
\* the end of the text.  ok = FALSE stands for the SyntaxError it throws.
JSONParse(text) ==
  LET toks == SelectSeq(text, IsNotWS)
      r == ParseValue(toks, 1)
  IN IF r.ok /\ r.n = Len(toks) + 1
       THEN [ok |-> TRUE, v |-> r.v]
       ELSE [ok |-> FALSE, v |-> JUndefined]

\* ------------------------------------------------------------------ JS semantics
\* ToBoolean(v), as used by a || b.
Truthy(v) ==
  CASE v.t \in {"obj", "arr"} -> TRUE
    [] v.t = "str" -> v.s # ""
    [] v.t = "num" -> v.s # "0"
    [] v.t = "bool" -> v.s = "true"
    [] OTHER -> FALSE

\* v.key; reading a property of null or undefined throws a TypeError.
PropertyThrows(v) == v.t \in {"null", "undefined"}

RECURSIVE LastKid(_, _, _)
LastKid(kids, key, i) ==
  IF i = 0 THEN JUndefined
  ELSE IF kids[i].k = key THEN kids[i].v
  ELSE LastKid(kids, key, i - 1)

Get(v, key) == IF v.t = "obj" THEN LastKid(v.kids, key, Len(v.kids)) ELSE JUndefined

\* Object.keys(v) throws a TypeError for null and undefined.
ObjectKeysThrows(v) == v.t \in {"null", "undefined"}

\* String(v), the conversion new Error(v) applies to its argument.
RECURSIVE ToStringJS(_)
RECURSIVE JoinKids(_, _)
JoinKids(kids, i) ==
  IF i > Len(kids) THEN <<>>
  ELSE (IF i > 1 THEN <<Comma>> ELSE <<>>)
       \o (IF kids[i].v.t \in {"null", "undefined"} THEN <<>> ELSE ToStringJS(kids[i].v))
       \o JoinKids(kids, i + 1)

ToStringJS(v) ==
  CASE v.t = "str" -> IF v.s = "" THEN <<>> ELSE <<Txt(v.s)>>
    [] v.t = "num" -> <<Num(v.s)>>
    [] v.t \in {"bool", "null"} -> <<Lit(v.s)>>
    [] v.t = "undefined" -> <<Txt("undefined")>>
    [] v.t = "obj" -> <<Txt("[object Object]")>>
    [] v.t = "arr" -> JoinKids(v.kids, 1)

\* JSON.stringify(v) for the values JSON.parse yields.
RECURSIVE JSONStringify(_)
RECURSIVE StringifyKids(_, _, _)
StringifyKids(kids, i, keyed) ==
  IF i > Len(kids) THEN <<>>
  ELSE (IF i > 1 THEN <<Comma>> ELSE <<>>)
       \o (IF keyed THEN <<Str(kids[i].k), Colon>> ELSE <<>>)
       \o JSONStringify(kids[i].v)
       \o StringifyKids(kids, i + 1, keyed)

JSONStringify(v) ==
  CASE v.t = "str" -> <<Str(v.s)>>
    [] v.t = "num" -> <<Num(v.s)>>
    [] v.t \in {"bool", "null"} -> <<Lit(v.s)>>
    [] v.t = "arr" -> <<LBracket>> \o StringifyKids(v.kids, 1, FALSE) \o <<RBracket>>
    [] v.t = "obj" -> <<LBrace>> \o StringifyKids(v.kids, 1, TRUE) \o <<RBrace>>

\* ------------------------------------------------------------------ exceptions
\* A thrown value: isError is "instanceof Error"; platform is TRUE when the
\* platform raised it (fetch, Response.text, JSON.parse, a property access)
\* and FALSE when the client constructed it with new Error(...).
ClientError(msg) == [isError |-> TRUE, message |-> msg, platform |-> FALSE]
SyntaxErrorMsg == <<Txt("Unexpected token in JSON")>>
SyntaxError == [isError |-> TRUE, message |-> SyntaxErrorMsg, platform |-> TRUE]
TypeErrorMsg == <<Txt("Cannot read properties of null")>>
TypeError == [isError |-> TRUE, message |-> TypeErrorMsg, platform |-> TRUE]

\* What a failing transport rejects with: the browser's TypeError, an Error
\* without a message, a value that is no Error.
FailedToFetch == [isError |-> TRUE, message |-> <<Txt("Failed to fetch")>>, platform |-> TRUE]
BlankError == [isError |-> TRUE, message |-> <<>>, platform |-> TRUE]
NonError == [isError |-> FALSE, message |-> <<>>, platform |-> TRUE]
TransportThrown == {FailedToFetch, BlankError, NonError}

\* The completion of a block: a returned value or a thrown one, and the
\* console.error sites it passed.
Return(v) == [threw |-> FALSE, value |-> v, error |-> NonError, logs |-> {}]
Throw(e, logs) == [threw |-> TRUE, value |-> JUndefined, error |-> e, logs |-> logs]

\* ------------------------------------------------------------------ api.js
EmptyResponseMsg(status) ==
  <<Txt("Empty response from server (status: "), Num(ToString(status)), Txt(")")>>
InvalidJsonMsg == <<Txt("Invalid JSON response from server")>>
HttpMsg(status) == <<Txt("HTTP "), Num(ToString(status))>>
UnknownErrorMsg(op) ==
  IF op = "uploadResume" THEN <<Txt("Unknown error uploading resume")>>
  ELSE <<Txt("Unknown error analyzing role")>>

\* res.ok
ResponseOk(status) == status >= 200 /\ status <= 299

\* safeParse, the try block: JSON.parse(text), the log of Object.keys(parsed),
\* return parsed.
SafeParseTry(text) ==
  LET p == JSONParse(text) IN
  IF ~p.ok THEN Throw(SyntaxError, {})
  ELSE IF ObjectKeysThrows(p.v) THEN Throw(TypeError, {})
  ELSE Return(p.v)

\* Mutant of SafeParseCatch: the parse failure is logged and a default value
\* is returned instead of thrown.
SafeParseCatch_Fallback(text, e) == [Return(JObj(<<>>)) EXCEPT !.logs = {"safeParse"}]

\* Mutant of SafeParseCatch: the catch block rethrows what it caught.
SafeParseCatch_Rethrow(text, e) == Throw(e, {"safeParse"})

\* safeParse, the catch block.
SafeParseCatch(text, e) == Throw(ClientError(InvalidJsonMsg), {"safeParse"})

\* safeParse from the point where the text of the body is there.
SafeParse(status, text) ==
  IF text = <<>> THEN Throw(ClientError(EmptyResponseMsg(status)), {})
  ELSE LET t == SafeParseTry(text) IN
       IF t.threw THEN SafeParseCatch(text, t.error) ELSE t

\* The argument of new Error in the try block of the !res.ok branch:
\* errorJson.message || errorJson.detail || `HTTP ${res.status}`, as a string.
ErrorArgument(status, errorJson) ==
  IF Truthy(Get(errorJson, "message")) THEN ToStringJS(Get(errorJson, "message"))
  ELSE IF Truthy(Get(errorJson, "detail")) THEN ToStringJS(Get(errorJson, "detail"))
  ELSE HttpMsg(status)

\* The !res.ok branch, the try block: it ends in a throw on every path.
ErrorTry(status, errorText) ==
  LET p == JSONParse(errorText) IN
  IF ~p.ok THEN Throw(SyntaxError, {})
  ELSE IF PropertyThrows(p.v) THEN Throw(TypeError, {})
  ELSE Throw(ClientError(ErrorArgument(status, p.v)), {})

\* Mutant of ErrorCatch: the catch block rethrows what it caught.
ErrorCatch_Rethrow(status, errorText, e) == Throw(e, {})

\* Mutant of ErrorCatch: the catch block logs and does not throw, so the call
\* goes on to safeParse(res).
ErrorCatch_Swallow(status, errorText, e) == Return(JUndefined)

\* The !res.ok branch, the catch block: it catches whatever the try block
\* threw, the Error built from the body's field included.
ErrorCatch(status, errorText, e) ==
  Throw(ClientError(IF errorText # <<>> THEN errorText ELSE HttpMsg(status)), {})

\* The !res.ok branch from the point where the text of the body is there.
ErrorBranch(status, errorText) ==
  LET t == ErrorTry(status, errorText) IN
  [ErrorCatch(status, errorText, t.error) EXCEPT !.logs = @ \cup {"errorResponse"}]

\* The log after safeParse reads result.resume_id / result.readiness_score.
LogResult(result) == IF PropertyThrows(result) THEN Throw(TypeError, {}) ELSE Return(result)

\* The 2xx path from the point where the text of the body is there.
SuccessBranch(status, text) ==
  LET r == SafeParse(status, text) IN
  IF r.threw THEN r ELSE LogResult(r.value)

\* ------------------------------------------------------------------ outcomes
NoOutcome == [kind |-> "none", value |-> JUndefined, message |-> <<>>, platformMsg |-> FALSE]
Resolved(v) == [kind |-> "resolved", value |-> v, message |-> <<>>, platformMsg |-> FALSE]
Rejected(msg, platformMsg) ==
  [kind |-> "rejected", value |-> JUndefined, message |-> msg, platformMsg |-> platformMsg]

\* ------------------------------------------------------------------ inputs
\* A configuration source holds a string or is undefined.
Undef == [defined |-> FALSE, text |-> <<>>]
S(text) == [defined |-> TRUE, text |-> text]
Slash == Txt("/")
RuntimeUrl == <<Txt("https://runtime.example.com")>>
ApiUrl == <<Txt("https://api.example.com")>>
LegacyUrl == <<Txt("https://legacy.example.com")>>

\* window.__API_BASE_URL__, import.meta.env.VITE_API_BASE_URL and
\* import.meta.env.VITE_API_URL.
WindowValues == {Undef, S(<<WS>>), S(RuntimeUrl)}
PrimaryValues ==
  {Undef, S(<<>>), S(<<WS>>), S(ApiUrl), S(ApiUrl \o <<Slash>>),
   S(<<WS>> \o ApiUrl \o <<Slash, WS>>)}
LegacyValues == {Undef, S(LegacyUrl)}
Envs ==
  [window : WindowValues, VITE_API_BASE_URL : PrimaryValues, VITE_API_URL : LegacyValues]
\* The deployments api.js documents: the variable set to the backend, or unset
\* (relative URLs).
DeployedEnvs ==
  {e \in Envs : /\ e.window = Undef
               /\ e.VITE_API_URL = Undef
               /\ e.VITE_API_BASE_URL \in {Undef, S(ApiUrl)}}

FormDatas == {"resume.pdf", "notes.txt"}
ResumeIds == {"", "r1"}
Roles == {"", "Senior Software Engineer"}

\* HTTP statuses a response carries.
Statuses == {200, 201, 299, 300, 500}

\* Response bodies: every text of at most MaxBodyLen lexemes over Alphabet,
\* and the bodies below.
Alphabet == {LBracket, RBracket, WS, Lit("null"), Txt("<html>")}
ShortBodies == UNION {[1..n -> Alphabet] : n \in 0..MaxBodyLen}

Member(k, v) == <<Str(k), Colon>> \o v
Object1(m) == <<LBrace>> \o m \o <<RBrace>>
Object2(m1, m2) == <<LBrace>> \o m1 \o <<Comma>> \o m2 \o <<RBrace>>

UploadBody == Object2(Member("resume_id", <<Str("r1")>>), Member("ats_score", <<Num("79")>>))
DetailBody == Object1(Member("detail", <<Str("LLM timeout")>>))
MessageBody == Object1(Member("message", <<Str("bad file")>>))
ErrorFieldBody == Object1(Member("error", <<Str("boom")>>))
MessageDetailBody ==
  Object2(Member("message", <<Str("bad file")>>), Member("detail", <<Str("LLM timeout")>>))
BlankMessageBody ==
  Object2(Member("message", <<Str("")>>), Member("detail", <<Str("LLM timeout")>>))
ObjectMessageBody == Object1(Member("message", Object1(Member("code", <<Num("1")>>))))
NoFieldBody == Object1(Member("code", <<Num("1")>>))
NotJsonBody == <<Txt("not json"), LBrace>>
TruncatedBody == <<LBrace, Str("resume_id"), Colon, Str("r1")>>
PlainTextBody == <<Txt("Internal Server Error")>>

LongBodies ==
  {UploadBody, DetailBody, MessageBody, ErrorFieldBody, MessageDetailBody,
   BlankMessageBody, ObjectMessageBody, NoFieldBody, NotJsonBody, TruncatedBody,
   PlainTextBody, <<Str("ok")>>, <<Num("79")>>, <<Num("0")>>, <<Lit("true")>>,
   <<WS, Num("79"), WS>>}

Bodies == ShortBodies \cup LongBodies

\* ------------------------------------------------------------------ state
VARIABLES
  env,                \* window.__API_BASE_URL__ and import.meta.env
  moduleLoaded,       \* api.js has been evaluated
  envChanged,         \* env was changed after api.js was evaluated
  API_BASE_URL,       \* the module constant, set when the module is loaded
  call,               \* the invocation the caller made last
  invocations,        \* calls of uploadResume / analyzeRole by the caller
  requestsIssued,     \* calls of fetch
  outcomesDelivered   \* promises of uploadResume / analyzeRole settled

VARIABLES
  route,              \* the path the router shows
  locationState,      \* location.state of that path
  upload,             \* the Upload screen's state
  selectedRole,       \* the RoleSelection screen's state
  readiness           \* the RoleReadiness screen's state

VARIABLES
  inflight,           \* the calls in flight at the same time, by caller
  wire                \* what the transport delivered to each of them

VARIABLES
  page                \* the state of the Upload page (pages/upload.jsx)

VARIABLES
  isAuthenticated,    \* the flag of the AuthProvider
  entries,            \* the history stack; its last entry is the location
  element             \* what the route of the location rendered

configVars == <<env, moduleLoaded, envChanged, API_BASE_URL>>
concurrentVars == <<inflight, wire>>
pageVars == <<page>>
routerVars == <<isAuthenticated, entries, element>>
otherVars == <<concurrentVars, pageVars, routerVars>>
clientVars == <<call, invocations, requestsIssued, outcomesDelivered>>
screenVars == <<route, locationState, upload, selectedRole, readiness>>
vars == <<configVars, clientVars, screenVars, otherVars>>

\* location.state is null, or an object with some of data, role, resume_id;
\* a field that is not there reads as undefined through ?.
NoLocationState == [data |-> JUndefined, role |-> JUndefined, resume_id |-> JUndefined]

\* Upload: the useState initial values; awaiting marks the await of
\* uploadResume, navTimer the pending setTimeout and result its closure.
UploadInit ==
  [isAnalyzing |-> FALSE, fileName |-> "", progress |-> 0, statusText |-> "",
   error |-> <<>>, awaiting |-> FALSE, navTimer |-> FALSE, result |-> JUndefined]

\* error: string | null
NullError == [isNull |-> TRUE, text |-> <<>>]
ErrorText(text) == [isNull |-> FALSE, text |-> text]

\* RoleReadiness: the useState initial values; pc is the position of the
\* effect (unmounted, mounted, idle, awaiting, settled).
ReadinessFields ==
  [targetPercentage |-> JNum("0"), targetRole |-> JStr(""), verdict |-> JStr(""),
   strengths |-> JArr(<<>>), gaps |-> JArr(<<>>), nonNegotiable |-> JArr(<<>>)]
ReadinessInit ==
  [pc |-> "unmounted", loading |-> TRUE, error |-> NullError, fields |-> ReadinessFields]
ReadinessMounted == [ReadinessInit EXCEPT !.pc = "mounted"]

NoRequest == [url |-> <<>>, method |-> "", contentType |-> "", formData |-> "", body |-> <<>>]

NoArgs == [formData |-> "", resumeId |-> "", role |-> ""]

IdleCall ==
  [pc |-> "idle", op |-> "none", args |-> NoArgs, request |-> NoRequest, status |-> 0,
   bodyReads |-> 0, text |-> <<>>,
   gotText |-> FALSE, outcome |-> NoOutcome, errorLogs |-> {}]

\* const API_BASE_URL = import.meta.env.VITE_API_BASE_URL || ""
LoadBaseUrl(e) ==
  IF e.VITE_API_BASE_URL.defined /\ e.VITE_API_BASE_URL.text # <<>>
    THEN e.VITE_API_BASE_URL.text
    ELSE <<>>

CallIds == 1..MaxCalls

\* pages/upload.jsx: the useState initial values; awaiting holds the
\* handleUpload calls that await uploadResume, latest the last one started.
PageInit ==
  [loading |-> FALSE, error |-> <<>>, result |-> JNull, awaiting |-> {}, latest |-> 0]
NoResponse == [status |-> 0, text |-> <<>>, gotText |-> FALSE]

\* ------------------------------------------------------------ the router
\* What a route element renders: <Navigate to=... replace />, or a screen.
Navigate(to) == [navigate |-> TRUE, to |-> to, screen |-> ""]
Render(screen) == [navigate |-> FALSE, to |-> "", screen |-> screen]

\* The children of the ProtectedRoute element, by path.
Component ==
  [p \in {"/home", "/upload", "/ats-score", "/role-selection",
          "/role-readiness", "/roadmap", "/dashboard", "/certificate"} |->
     CASE p = "/home" -> "Landing"
       [] p = "/upload" -> "Upload"
       [] p = "/ats-score" -> "ATSScore"
       [] p = "/role-selection" -> "RoleSelection"
       [] p = "/role-readiness" -> "RoleReadiness"
       [] p = "/roadmap" -> "Roadmap"
       [] p = "/dashboard" -> "Dashboard"
       [] p = "/certificate" -> "Certificate"]

ProtectedPaths == DOMAIN Component
ProtectedScreens == {Component[p] : p \in ProtectedPaths}

\* A path no route but "*" matches.
UnknownPath == "/nowhere"
Paths == ProtectedPaths \cup {"/", "/login", UnknownPath}

RootRedirect(authenticated) ==
  Navigate(IF authenticated THEN "/home" ELSE "/login")

LoginRedirect(authenticated) ==
  IF authenticated THEN Navigate("/home") ELSE Render("Login")

ProtectedRoute_AlwaysOutlet(authenticated, outlet) == Render(outlet)

ProtectedRoute(authenticated, outlet) ==
  IF ~authenticated THEN Navigate("/login") ELSE Render(outlet)

\* The route table: the element the router renders at a path.
router(path, authenticated) ==
  IF path = "/" THEN RootRedirect(authenticated)
  ELSE IF path = "/login" THEN LoginRedirect(authenticated)
  ELSE IF path \in ProtectedPaths THEN ProtectedRoute(authenticated, Component[path])
  ELSE Render("NotFound")

\* The flag of the AuthProvider when the application is mounted.
AuthInit == FALSE

InitWith(envs) ==
  /\ env \in envs
  /\ moduleLoaded = FALSE
  /\ envChanged = FALSE
  /\ API_BASE_URL = <<>>
  /\ route = "/"
  /\ locationState = NoLocationState
  /\ upload = UploadInit
  /\ selectedRole = ""
  /\ readiness = ReadinessInit
  /\ inflight = [i \in CallIds |-> IdleCall]
  /\ page = PageInit
  /\ isAuthenticated = AuthInit
  /\ entries = <<"/">>
  /\ element = router("/", AuthInit)
  /\ wire = [i \in CallIds |-> NoResponse]
  /\ call = IdleCall
  /\ invocations = 0
  /\ requestsIssued = 0
  /\ outcomesDelivered = 0

Init == InitWith(DeployedEnvs)

\* ------------------------------------------------------------------ handlers
\* A step of a handler: the call's next state, and how many times the step
\* called fetch and settled the returned promise.
Step(c, fetches, settles) == [call |-> c, fetches |-> fetches, settles |-> settles]

Apply(step) ==
  /\ call' = step.call
  /\ requestsIssued' = requestsIssued + step.fetches
  /\ outcomesDelivered' = outcomesDelivered + step.settles
  /\ UNCHANGED <<configVars, otherVars>>

\* fetch(endpoint, {method: "POST", body: formData})
\* Mutant of UploadRequest: the request carries an explicit content type.
UploadRequest_ContentType(base, formData) ==
  [url |-> base \o <<Txt("/api/resume/upload")>>, method |-> "POST",
   contentType |-> "multipart/form-data", formData |-> formData, body |-> <<>>]

\* Mutant of UploadRequest: the base URL is read from the environment per call.
UploadRequest_ReadsEnv(base, formData) ==
  [url |-> LoadBaseUrl(env) \o <<Txt("/api/resume/upload")>>, method |-> "POST",
   contentType |-> "", formData |-> formData, body |-> <<>>]

UploadRequest(base, formData) ==
  [url |-> base \o <<Txt("/api/resume/upload")>>, method |-> "POST", contentType |-> "",
   formData |-> formData, body |-> <<>>]

\* fetch(endpoint, {method: "POST", headers: {"Content-Type": "application/json"},
\*                  body: JSON.stringify({resume_id: resumeId, role})})
AnalyzeRequest(base, resumeId, role) ==
  [url |-> base \o <<Txt("/api/role/analyze")>>, method |-> "POST",
   contentType |-> "application/json", formData |-> "",
   body |-> JSONStringify(JObj(<<Kid("resume_id", JStr(resumeId)), Kid("role", JStr(role))>>))]

\* uploadResume / analyzeRole up to the await of fetch.
StartCall(op, args, request) ==
  Step([IdleCall EXCEPT !.pc = "awaitFetch", !.op = op, !.args = args, !.request = request],
       1, 0)

\* Mutant of AnalyzeStart: an empty argument is rejected before any request.
AnalyzeStart_Validates(base, resumeId, role) ==
  IF resumeId = "" \/ role = ""
    THEN Step([IdleCall EXCEPT !.pc = "done", !.op = "analyzeRole",
                               !.args = [NoArgs EXCEPT !.resumeId = resumeId, !.role = role],
                               !.outcome = [kind |-> "rejected", value |-> JUndefined,
                                            message |-> <<Txt("resume_id and role are required")>>,
                                            platformMsg |-> FALSE]],
              0, 1)
    ELSE StartCall("analyzeRole", [NoArgs EXCEPT !.resumeId = resumeId, !.role = role],
                   AnalyzeRequest(base, resumeId, role))

UploadStart(base, formData) ==
  StartCall("uploadResume", [NoArgs EXCEPT !.formData = formData], UploadRequest(base, formData))

AnalyzeStart(base, resumeId, role) ==
  StartCall("analyzeRole", [NoArgs EXCEPT !.resumeId = resumeId, !.role = role],
            AnalyzeRequest(base, resumeId, role))

\* Mutant of OuterCatch: the catch block calls fetch again instead of rejecting.
OuterCatch_Retry(c, e) == Step([c EXCEPT !.pc = "awaitFetch"], 1, 0)

\* The catch block of uploadResume / analyzeRole: the promise rejects with
\* new Error(message).
OuterCatch(c, e) ==
  Step([c EXCEPT !.pc = "done",
                 !.outcome = Rejected(IF e.isError THEN e.message ELSE UnknownErrorMsg(c.op),
                                      e.isError /\ e.platform),
                 !.errorLogs = @ \cup {"failed"}],
       0, 1)

\* return result
ReturnResult(c, result) == Step([c EXCEPT !.pc = "done", !.outcome = Resolved(result)], 0, 1)

\* The continuation after await fetch(...) resolved: !res.ok reads the text of
\* a clone of the response, otherwise safeParse does; bodyReads counts the
\* text() calls made on the response and its clones.
OnResponse(c, status) ==
  Step([c EXCEPT !.pc = IF ResponseOk(status) THEN "awaitText" ELSE "awaitErrorText",
                 !.status = status, !.bodyReads = @ + 1],
       0, 0)

\* The continuation after the text of the body is there, to the end of the call.
OnText(c, text) ==
  LET got == [c EXCEPT !.text = text, !.gotText = TRUE]
      r == IF c.pc = "awaitErrorText" THEN ErrorBranch(c.status, text)
           ELSE SuccessBranch(c.status, text)
      logged == [got EXCEPT !.errorLogs = @ \cup r.logs]
  IN IF r.threw THEN OuterCatch(logged, r.error)
     ELSE IF c.pc = "awaitErrorText"
       THEN Step([logged EXCEPT !.pc = "awaitText", !.bodyReads = @ + 1], 0, 0)
     ELSE ReturnResult(logged, r.value)

\* ------------------------------------------------------------------ actions
\* The module is evaluated once, when it is first imported.
LoadModule ==
  /\ ~moduleLoaded
  /\ moduleLoaded' = TRUE
  /\ API_BASE_URL' = LoadBaseUrl(env)
  /\ UNCHANGED <<env, envChanged, clientVars, screenVars, otherVars>>

\* The hosting page or the environment changes one configuration source.
SetEnv ==
  \E e \in Envs :
    /\ e # env
    /\ Cardinality({f \in DOMAIN env : e[f] # env[f]}) = 1
    /\ env' = e
    /\ envChanged' = moduleLoaded
    /\ UNCHANGED <<moduleLoaded, API_BASE_URL, clientVars, screenVars, otherVars>>

CanInvoke == moduleLoaded /\ call.pc \in {"idle", "done"} /\ invocations < MaxInvocations

UploadResume ==
  \E formData \in FormDatas :
    /\ CanInvoke
    /\ invocations' = invocations + 1
    /\ Apply(UploadStart(API_BASE_URL, formData))
    /\ UNCHANGED screenVars

AnalyzeRole ==
  \E resumeId \in ResumeIds, role \in Roles :
    /\ CanInvoke
    /\ invocations' = invocations + 1
    /\ Apply(AnalyzeStart(API_BASE_URL, resumeId, role))
    /\ UNCHANGED screenVars

\* fetch rejects: no response was received.
FetchRejects ==
  \E e \in TransportThrown :
    /\ call.pc = "awaitFetch"
    /\ Apply(OuterCatch(call, e))
    /\ UNCHANGED <<invocations, screenVars>>

\* fetch resolves with a response of some status.
FetchResolves ==
  \E status \in Statuses :
    /\ call.pc = "awaitFetch"
    /\ Apply(OnResponse(call, status))
    /\ UNCHANGED <<invocations, screenVars>>

\* text() of the clone resolves with the body.
TextResolves ==
  \E text \in Bodies :
    /\ call.pc \in {"awaitText", "awaitErrorText"}
    /\ Apply(OnText(call, text))
    /\ UNCHANGED <<invocations, screenVars>>

\* text() of the clone rejects: the connection broke while the body was read.
TextRejects ==
  \E e \in TransportThrown :
    /\ call.pc \in {"awaitText", "awaitErrorText"}
    /\ Apply(OuterCatch(call, e))
    /\ UNCHANGED <<invocations, screenVars>>

Next ==
  \/ LoadModule
  \/ UploadResume
  \/ AnalyzeRole
  \/ FetchRejects
  \/ FetchResolves
  \/ TextResolves
  \/ TextRejects

Spec == Init /\ [][Next]_vars

\* The client under every configuration, with the configuration changing
\* while it runs; the transport fails or answers with one of two bodies.
InitConfig == InitWith(Envs)

\* fetch resolves and text() of the clone resolves right after it.
Responds(statuses, bodies) ==
  \E status \in statuses, text \in bodies :
    /\ call.pc = "awaitFetch"
    /\ Apply(OnText(OnResponse(call, status).call, text))
    /\ UNCHANGED <<invocations, screenVars>>

ConfigResponse == Responds({201, 500}, {UploadBody, <<>>})

NextConfig ==
  \/ LoadModule
  \/ SetEnv
  \/ UploadResume
  \/ AnalyzeRole
  \/ FetchRejects
  \/ ConfigResponse

SpecConfig == InitConfig /\ [][NextConfig]_vars

\* ------------------------------------------------------------------ claims
Done == call.pc = "done"
Pending == call.pc \in {"awaitFetch", "awaitText", "awaitErrorText"}
\* A response was received and its body was read to the end.
BodyRead == Done /\ call.gotText
Parsed == JSONParse(call.text)
StatusLexeme == Num(ToString(call.status))
IsBlank(text) == \A i \in 1..Len(text) : text[i].c = "ws"

\* C1: a response with status in 200..299 whose body is valid, non-empty JSON
\* (the value null included) resolves with the body's parsed JSON value.
C1_RoundTrip ==
  (BodyRead /\ ResponseOk(call.status) /\ Parsed.ok)
    => call.outcome = Resolved(Parsed.v)

\* The string value of the first of message, detail, error a JSON object has.
HasTextField(v, key) == Get(v, key).t = "str" /\ Get(v, key).s # ""
FieldText(v) ==
  IF Get(v, "message") # JUndefined THEN ToStringJS(Get(v, "message"))
  ELSE IF Get(v, "detail") # JUndefined THEN ToStringJS(Get(v, "detail"))
  ELSE ToStringJS(Get(v, "error"))

\* C2: a response with status outside 200..299 whose body is JSON with a
\* message, detail or error field rejects with that field's string value as
\* the message, not with the raw body text.
C2_FieldMessage ==
  (/\ BodyRead
   /\ ~ResponseOk(call.status)
   /\ Parsed.ok
   /\ \E key \in {"message", "detail", "error"} : HasTextField(Parsed.v, key)
   /\ \A key \in {"message", "detail", "error"} :
        Get(Parsed.v, key) = JUndefined \/ HasTextField(Parsed.v, key))
    => (call.outcome.kind = "rejected" /\ call.outcome.message = FieldText(Parsed.v))

\* C3: the promise resolves only when a response with status in 200..299 and a
\* non-empty, valid-JSON body was received; every other outcome of fetch
\* rejects, and no call that logged an error resolves.
C3_ResolveOnlyOnValidJson ==
  Done =>
    /\ call.outcome.kind \in {"resolved", "rejected"}
    /\ call.outcome.kind = "resolved" =>
         (BodyRead /\ ResponseOk(call.status) /\ call.text # <<>> /\ Parsed.ok
          /\ call.errorLogs = {})
    /\ ~(BodyRead /\ ResponseOk(call.status) /\ call.text # <<>> /\ Parsed.ok) =>
         call.outcome.kind = "rejected"

C3_Witness ==
  /\ Done
  /\ call.status = 201
  /\ call.text = UploadBody
  /\ call.outcome = Resolved(JObj(<<Kid("resume_id", JStr("r1")), Kid("ats_score", JNum("79"))>>))

\* C4: a response with status outside 200..299 whose body is not JSON rejects
\* with the raw body text as the message when the text is non-empty, and with
\* a message containing the status code otherwise; the message is never the
\* JSON parser's.
C4_RawTextOrStatus ==
  (BodyRead /\ ~ResponseOk(call.status) /\ ~Parsed.ok) =>
    /\ call.outcome.kind = "rejected"
    /\ call.text # <<>> => call.outcome.message = call.text
    /\ call.text = <<>> => Contains(call.outcome.message, StatusLexeme)
    /\ call.outcome.message # SyntaxErrorMsg
    /\ ~call.outcome.platformMsg

C4_Witness ==
  /\ Done
  /\ call.status = 500
  /\ call.text = PlainTextBody
  /\ call.outcome = Rejected(PlainTextBody, FALSE)

\* C5: a response with status in 200..299 whose body is empty or only
\* whitespace rejects with the empty-body error, whose message mentions the
\* status.
C5_BlankBodyIsEmptyError ==
  (BodyRead /\ ResponseOk(call.status) /\ IsBlank(call.text)) =>
    /\ call.outcome.kind = "rejected"
    /\ call.outcome.message = EmptyResponseMsg(call.status)
    /\ Contains(call.outcome.message, StatusLexeme)

\* C6: a response with status in 200..299 whose body is non-empty and not
\* valid JSON rejects with the invalid-JSON error, whose message differs from
\* the empty-body error's.
C6_InvalidJsonError ==
  (BodyRead /\ ResponseOk(call.status) /\ call.text # <<>> /\ ~Parsed.ok) =>
    /\ call.outcome.kind = "rejected"
    /\ call.outcome.message = InvalidJsonMsg
    /\ call.outcome.message # EmptyResponseMsg(call.status)

C6_Witness ==
  /\ Done
  /\ call.status = 200
  /\ call.text = NotJsonBody
  /\ call.outcome = Rejected(InvalidJsonMsg, FALSE)
  /\ "safeParse" \in call.errorLogs

\* The phrases of the repository's client messages that tell the operator to
\* check the configured backend URL and the CORS policy.
HintPhrases ==
  {Txt("Network error. Check connection and CORS."),
   Txt(" Set VITE_API_BASE_URL (or VITE_API_URL) to your backend URL in Render and rebuild.")}
HasNetworkHint(msg) == \E i \in 1..Len(msg) : msg[i] \in HintPhrases

\* C7: when fetch rejects before a response is received, the promise rejects
\* with a message that carries the hint to check the base URL and the CORS
\* policy and no text of the JSON parser.
C7_NetworkHint ==
  (Done /\ call.status = 0) =>
    /\ call.outcome.kind = "rejected"
    /\ HasNetworkHint(call.outcome.message)
    /\ call.outcome.message # SyntaxErrorMsg

\* C8: no rejection carries the message of an exception the platform raised
\* (the JSON parser's, a property access's, the transport's).
C8_NoPlatformMessage ==
  (Done /\ call.outcome.kind = "rejected") => ~call.outcome.platformMsg

\* C9: the message of every rejection is a non-empty string, whatever the
\* transport threw.
C9_NonEmptyMessage ==
  (Done /\ call.outcome.kind = "rejected") => call.outcome.message # <<>>

\* C10: every invocation calls fetch exactly once and settles exactly once;
\* fetch is called again only by a new invocation, never after a failure.
C10_OneRequestOneOutcome ==
  /\ requestsIssued = invocations
  /\ outcomesDelivered = invocations - (IF Pending THEN 1 ELSE 0)
  /\ Done => call.outcome.kind # "none"
  /\ Pending => call.outcome.kind = "none"

C10_Witness ==
  /\ Done
  /\ call.outcome.kind = "rejected"
  /\ invocations = 2
  /\ requestsIssued = 2
  /\ outcomesDelivered = 2

\* ---------------------------------------------------------------------------
\* The screens that call the client

Routes == {"/upload", "/ats-score", "/role-selection", "/role-readiness"}
RoleTitles == {"Software Engineer", "Product Manager"}
AnalysisBody ==
  Object2(Member("readiness_score", <<Num("62")>>), Member("verdict", <<Str("Not ready")>>))
ScreenBodies == {UploadBody, AnalysisBody, NoFieldBody, <<Num("79")>>}

\* v?.key
OptGet(v, key) == IF PropertyThrows(v) THEN JUndefined ELSE Get(v, key)
\* v ?? d
Nullish(v, d) == IF v.t \in {"null", "undefined"} THEN d ELSE v
\* Array.isArray(v) ? v : []
ArrayOr(v) == IF v.t = "arr" THEN v ELSE JArr(<<>>)

\* The router shows path r: the screen of r is mounted with its initial
\* state, the others are unmounted.
Mount(r) ==
  /\ route' = r
  /\ upload' = UploadInit
  /\ selectedRole' = ""
  /\ readiness' = IF r = "/role-readiness" THEN ReadinessMounted ELSE ReadinessInit

ScreenBusy == upload.awaiting \/ upload.navTimer \/ readiness.pc = "awaiting"

\* The user opens a path in the address bar or reloads: location.state is null.
OpenPage ==
  \E r \in Routes :
    /\ moduleLoaded
    /\ ~ScreenBusy
    /\ Mount(r)
    /\ locationState' = NoLocationState
    /\ UNCHANGED <<configVars, otherVars, clientVars>>

\* Upload.startAnalysis up to the await of uploadResume.
StartAnalysis(u, file) ==
  [u EXCEPT !.fileName = file, !.isAnalyzing = TRUE, !.progress = 0, !.error = <<>>,
            !.awaiting = TRUE]

\* Upload.startAnalysis after the await: the rest of the try block, or the
\* catch block.
AfterUpload(u, outcome) ==
  IF outcome.kind = "resolved"
    THEN [u EXCEPT !.progress = 100, !.statusText = "Analysis complete!",
                   !.awaiting = FALSE, !.navTimer = TRUE, !.result = outcome.value]
    ELSE [u EXCEPT !.error = outcome.message, !.isAnalyzing = FALSE, !.awaiting = FALSE]

\* Upload.handleFileChange: the file input is rendered while !isAnalyzing.
HandleFileChange ==
  \E file \in FormDatas :
    /\ route = "/upload"
    /\ ~upload.isAnalyzing
    /\ CanInvoke
    /\ upload' = StartAnalysis(upload, file)
    /\ invocations' = invocations + 1
    /\ Apply(UploadStart(API_BASE_URL, file))
    /\ UNCHANGED <<route, locationState, selectedRole, readiness>>

UploadContinues ==
  /\ upload.awaiting
  /\ call.pc = "done"
  /\ upload' = AfterUpload(upload, call.outcome)
  /\ UNCHANGED <<configVars, otherVars, clientVars, route, locationState, selectedRole, readiness>>

\* setTimeout(() => navigate("/ats-score", {state: {data: result}}), 500)
NavTimerFires ==
  /\ upload.navTimer
  /\ Mount("/ats-score")
  /\ locationState' = [NoLocationState EXCEPT !.data = upload.result]
  /\ UNCHANGED <<configVars, otherVars, clientVars>>

\* ATSScore, Continue: navigate("/role-selection",
\*   {state: {resume_id: location.state?.data?.resume_id}})
ATSContinue ==
  /\ route = "/ats-score"
  /\ Mount("/role-selection")
  /\ locationState' =
       [NoLocationState EXCEPT !.resume_id = OptGet(locationState.data, "resume_id")]
  /\ UNCHANGED <<configVars, otherVars, clientVars>>

\* RoleSelection: onClick={() => setSelectedRole(role.title)}
SelectRole ==
  \E title \in RoleTitles :
    /\ route = "/role-selection"
    /\ selectedRole' = title
    /\ UNCHANGED <<configVars, otherVars, clientVars, route, locationState, upload, readiness>>

\* Mutant of ReadinessState: the resume_id is a constant of the screen.
ReadinessState_FixedId(state, selected) ==
  [NoLocationState EXCEPT !.role = JStr(selected), !.resume_id = JStr("resume-1")]

\* {role: selectedRole, resume_id: location.state?.resume_id}
ReadinessState(state, selected) ==
  [NoLocationState EXCEPT !.role = JStr(selected), !.resume_id = state.resume_id]

\* RoleSelection, Continue: selectedRole && navigate("/role-readiness",
\*   {state: {role: selectedRole, resume_id: location.state?.resume_id}})
ContinueToReadiness ==
  /\ route = "/role-selection"
  /\ selectedRole # ""
  /\ Mount("/role-readiness")
  /\ locationState' = ReadinessState(locationState, selectedRole)
  /\ UNCHANGED <<configVars, otherVars, clientVars>>

\* Mutant of MissingInput: only the role is required.
MissingInput_RoleOnly(role, resume_id) == ~Truthy(role)

\* RoleReadiness: if (!role || !resume_id)
MissingInput(role, resume_id) == ~Truthy(role) \/ ~Truthy(resume_id)

\* fetchRoleAnalysis up to the await of analyzeRole.
FetchRoleAnalysis(rd) ==
  [rd EXCEPT !.pc = "awaiting", !.loading = TRUE, !.error = NullError,
             !.fields = ReadinessFields]

\* fetchRoleAnalysis after the await: the rest of the try block or the catch
\* block, then the finally block.
AfterAnalysis(rd, outcome, role) ==
  LET data == outcome.value
      settled ==
        IF outcome.kind # "resolved" THEN [rd EXCEPT !.error = ErrorText(outcome.message)]
        ELSE IF data.t \notin {"obj", "arr"}
          THEN [rd EXCEPT !.error = ErrorText(<<Txt("Invalid response from server")>>)]
        ELSE [rd EXCEPT
                !.fields =
                  [targetRole |-> Nullish(Get(data, "target_role"), role),
                   targetPercentage |-> Nullish(Get(data, "readiness_score"), JNum("0")),
                   strengths |-> ArrayOr(Get(data, "strengths")),
                   gaps |-> ArrayOr(Get(data, "gaps")),
                   nonNegotiable |-> ArrayOr(Get(data, "non_negotiable")),
                   verdict |-> Nullish(Get(data, "verdict"), JStr(""))],
                !.error = NullError]
  IN [settled EXCEPT !.loading = FALSE, !.pc = "settled"]

\* RoleReadiness: the effect that runs when the screen is mounted.
ReadinessEffect ==
  /\ route = "/role-readiness"
  /\ readiness.pc = "mounted"
  /\ IF MissingInput(locationState.role, locationState.resume_id)
       THEN /\ readiness' = [readiness EXCEPT !.pc = "idle", !.loading = FALSE]
            /\ UNCHANGED <<configVars, otherVars, clientVars>>
       ELSE /\ CanInvoke
            /\ readiness' = FetchRoleAnalysis(readiness)
            /\ invocations' = invocations + 1
            /\ Apply(AnalyzeStart(API_BASE_URL, locationState.resume_id.s, locationState.role.s))
  /\ UNCHANGED <<route, locationState, upload, selectedRole>>

ReadinessContinues ==
  /\ readiness.pc = "awaiting"
  /\ call.pc = "done"
  /\ readiness' = AfterAnalysis(readiness, call.outcome, locationState.role)
  /\ UNCHANGED <<configVars, otherVars, clientVars, route, locationState, upload, selectedRole>>

ScreenResponse == Responds({200, 500}, ScreenBodies)

InitScreens == InitWith(DeployedEnvs)

NextScreens ==
  \/ LoadModule
  \/ OpenPage
  \/ HandleFileChange
  \/ UploadContinues
  \/ NavTimerFires
  \/ ATSContinue
  \/ SelectRole
  \/ ContinueToReadiness
  \/ ReadinessEffect
  \/ ReadinessContinues
  \/ FetchRejects
  \/ ScreenResponse

SpecScreens == InitScreens /\ [][NextScreens]_vars

\* A continuation whose promise has settled runs: the microtask queue is
\* drained before the event loop takes the next task.
SpecScreensFair ==
  SpecScreens /\ WF_vars(UploadContinues) /\ WF_vars(ReadinessContinues)

\* ---------------------------------------------------------------------------
\* Several calls in flight

ConcurrentStatuses == {200, 500}
ConcurrentBodies == {UploadBody, DetailBody, NotJsonBody, <<>>}

\* Mutant of Deliver: the status of the last response is kept in one place
\* for all calls.
Deliver_SharedStatus(cs, i, step) ==
  [j \in DOMAIN cs |->
     IF j = i THEN step.call
     ELSE IF cs[j].pc \in {"awaitText", "awaitErrorText"} /\ step.call.status # 0
       THEN [cs[j] EXCEPT !.status = step.call.status]
     ELSE cs[j]]

\* endpoint, res, errorText, result and error are locals of each call: a
\* step of call i changes the state of call i.
Deliver(cs, i, step) == [cs EXCEPT ![i] = step.call]

ApplyTo(i, step) ==
  /\ inflight' = Deliver(inflight, i, step)
  /\ requestsIssued' = requestsIssued + step.fetches
  /\ outcomesDelivered' = outcomesDelivered + step.settles
  /\ UNCHANGED <<configVars, call, invocations, screenVars, routerVars>>

ConcurrentUpload ==
  \E i \in CallIds :
    /\ moduleLoaded
    /\ inflight[i].pc = "idle"
    /\ ApplyTo(i, UploadStart(API_BASE_URL, "resume.pdf"))
    /\ UNCHANGED <<wire, pageVars>>

ConcurrentAnalyze ==
  \E i \in CallIds :
    /\ moduleLoaded
    /\ inflight[i].pc = "idle"
    /\ ApplyTo(i, AnalyzeStart(API_BASE_URL, "r1", "Software Engineer"))
    /\ UNCHANGED <<wire, pageVars>>

ConcurrentFetchRejects ==
  \E i \in CallIds, e \in TransportThrown :
    /\ inflight[i].pc = "awaitFetch"
    /\ ApplyTo(i, OuterCatch(inflight[i], e))
    /\ UNCHANGED <<wire, pageVars>>

ConcurrentFetchResolves ==
  \E i \in CallIds, status \in ConcurrentStatuses :
    /\ inflight[i].pc = "awaitFetch"
    /\ ApplyTo(i, OnResponse(inflight[i], status))
    /\ wire' = [wire EXCEPT ![i].status = status]
    /\ UNCHANGED pageVars

ConcurrentTextResolves ==
  \E i \in CallIds, text \in ConcurrentBodies :
    /\ inflight[i].pc \in {"awaitText", "awaitErrorText"}
    /\ ApplyTo(i, OnText(inflight[i], text))
    /\ wire' = [wire EXCEPT ![i].text = text, ![i].gotText = TRUE]
    /\ UNCHANGED pageVars

ConcurrentTextRejects ==
  \E i \in CallIds, e \in TransportThrown :
    /\ inflight[i].pc \in {"awaitText", "awaitErrorText"}
    /\ ApplyTo(i, OuterCatch(inflight[i], e))
    /\ UNCHANGED <<wire, pageVars>>

InitConcurrent == InitWith(DeployedEnvs)

NextConcurrent ==
  \/ LoadModule
  \/ ConcurrentUpload
  \/ ConcurrentAnalyze
  \/ ConcurrentFetchRejects
  \/ ConcurrentFetchResolves
  \/ ConcurrentTextResolves
  \/ ConcurrentTextRejects

SpecConcurrent == InitConcurrent /\ [][NextConcurrent]_vars

\* ---------------------------------------------------------------------------
\* The Upload page (pages/upload.jsx)

\* e.target.files[0]: a file, or undefined when the dialog was cancelled.
NoFile == ""
SelectedFiles == FormDatas \cup {NoFile}

\* handleUpload up to if (!file) return.
ClearPage(pg) == [pg EXCEPT !.error = <<>>, !.result = JNull]

\* handleUpload from there to the await of uploadResume.
BeginUpload(pg, i) ==
  [ClearPage(pg) EXCEPT !.loading = TRUE, !.awaiting = @ \cup {i}, !.latest = i]

\* handleUpload after the await: setResult(res), or the catch block with
\* err?.message || "Upload failed", then the finally block.
AfterHandleUpload(pg, i, outcome) ==
  LET shown == IF outcome.kind = "resolved" THEN [pg EXCEPT !.result = outcome.value]
               ELSE [pg EXCEPT !.error = IF outcome.message # <<>> THEN outcome.message
                                         ELSE <<Txt("Upload failed")>>]
  IN [shown EXCEPT !.loading = FALSE, !.awaiting = @ \ {i}]

\* The input is never disabled: a file can be chosen while an upload is
\* pending.
HandleUpload ==
  \E file \in SelectedFiles :
    /\ moduleLoaded
    /\ IF file = NoFile
         THEN /\ page' = [ClearPage(page) EXCEPT !.latest = 0]
              /\ UNCHANGED <<configVars, clientVars, screenVars, concurrentVars, routerVars>>
         ELSE \E i \in CallIds :
                /\ inflight[i].pc = "idle"
                /\ \A j \in CallIds : j < i => inflight[j].pc # "idle"
                /\ page' = BeginUpload(page, i)
                /\ ApplyTo(i, UploadStart(API_BASE_URL, file))
                /\ UNCHANGED wire

HandleUploadContinues ==
  \E i \in page.awaiting :
    /\ inflight[i].pc = "done"
    /\ page' = AfterHandleUpload(page, i, inflight[i].outcome)
    /\ UNCHANGED <<configVars, clientVars, screenVars, concurrentVars, routerVars>>

InitPage == InitWith(DeployedEnvs)

NextPage ==
  \/ LoadModule
  \/ HandleUpload
  \/ HandleUploadContinues
  \/ ConcurrentFetchRejects
  \/ ConcurrentFetchResolves
  \/ ConcurrentTextResolves
  \/ ConcurrentTextRejects

SpecPage == InitPage /\ [][NextPage]_vars

\* ---------------------------------------------------------------------------
\* Configuration

NonBlank(source) == source.defined /\ ~IsBlank(source.text)
Trim(text) ==
  LET kept == {i \in 1..Len(text) : text[i].c # "ws"} IN
    IF kept = {} THEN <<>>
    ELSE SubSeq(text, CHOOSE i \in kept : \A j \in kept : i <= j,
                      CHOOSE i \in kept : \A j \in kept : i >= j)
StripOneSlash(text) ==
  IF Len(text) > 0 /\ text[Len(text)] = Slash THEN SubSeq(text, 1, Len(text) - 1) ELSE text
Canon(text) == StripOneSlash(Trim(text))
FirstNonBlank(e) ==
  IF NonBlank(e.window) THEN e.window.text
  ELSE IF NonBlank(e.VITE_API_BASE_URL) THEN e.VITE_API_BASE_URL.text
  ELSE IF NonBlank(e.VITE_API_URL) THEN e.VITE_API_URL.text
  ELSE <<>>
LoadedFromEnv == moduleLoaded /\ ~envChanged
EndpointPath(op) ==
  IF op = "uploadResume" THEN Txt("/api/resume/upload") ELSE Txt("/api/role/analyze")
RequestUrl(c, base) ==
  IF c.op = "uploadResume"
    THEN UploadRequest(base, c.request.formData).url
    ELSE base \o <<EndpointPath(c.op)>>

\* C11: the base URL comes from the first non-blank source in the order
\* window.__API_BASE_URL__, VITE_API_BASE_URL, VITE_API_URL, and is empty
\* when all three are blank; a blank higher source never shadows a
\* non-blank lower one.
C11_Precedence ==
  LoadedFromEnv => Canon(API_BASE_URL) = Canon(FirstNonBlank(env))

\* C12: two configurations whose base URL differs only by surrounding
\* whitespace and one trailing slash issue requests to the same URL.
C12_SlashInsensitive ==
  (LoadedFromEnv /\ call.op # "none" /\ NonBlank(env.VITE_API_BASE_URL)) =>
    \A v \in PrimaryValues :
      (v.defined /\ Canon(v.text) = Canon(env.VITE_API_BASE_URL.text)) =>
        call.request.url = RequestUrl(call, LoadBaseUrl([env EXCEPT !.VITE_API_BASE_URL = v]))

\* C14: the base URL is fixed when the module is loaded; whatever happens to
\* the environment afterwards, it stays the same and every request goes to
\* it followed by the endpoint path.
C14_ResolvedOnce ==
  [][/\ moduleLoaded => API_BASE_URL' = API_BASE_URL
     /\ call'.op # "none" => call'.request.url = API_BASE_URL' \o <<EndpointPath(call'.op)>>]_vars

C14_Witness ==
  /\ envChanged
  /\ LoadBaseUrl(env) # API_BASE_URL
  /\ call.pc = "awaitFetch"
  /\ call.request.url = API_BASE_URL \o <<EndpointPath(call.op)>>

\* ---------------------------------------------------------------------------
\* Requests

\* C15: uploadResume issues one POST to the base URL followed by
\* /api/resume/upload, with the caller's form data as the body and no
\* explicit content type.
C15_UploadRequest ==
  call.op = "uploadResume" =>
    /\ requestsIssued = invocations
    /\ call.request = [url |-> API_BASE_URL \o <<Txt("/api/resume/upload")>>,
                       method |-> "POST", contentType |-> "",
                       formData |-> call.args.formData, body |-> <<>>]

C15_Witness ==
  /\ call.op = "uploadResume"
  /\ call.pc = "awaitFetch"
  /\ call.args.formData = "notes.txt"
  /\ API_BASE_URL = ApiUrl
  /\ call.request.url = <<Txt("https://api.example.com"), Txt("/api/resume/upload")>>

ErrorFields == <<"message", "detail", "error">>
PresentFields(v) == {i \in 1..Len(ErrorFields) : HasTextField(v, ErrorFields[i])}
FirstPresent(v) ==
  ErrorFields[CHOOSE i \in PresentFields(v) : \A j \in PresentFields(v) : i <= j]

\* C17: when the JSON body of a response with status outside 200..299 has
\* several of message, detail and error, the rejection message is the first
\* one present in that order; error is used when it is the only one.
C17_FieldOrder ==
  (/\ BodyRead
   /\ ~ResponseOk(call.status)
   /\ Parsed.ok
   /\ Cardinality(PresentFields(Parsed.v)) >= 2 \/ PresentFields(Parsed.v) = {3})
    => /\ call.outcome.kind = "rejected"
       /\ call.outcome.message = <<Txt(Get(Parsed.v, FirstPresent(Parsed.v)).s)>>

ContainsSeq(text, part) ==
  \E i \in 1..(Len(text) - Len(part) + 1) : SubSeq(text, i, i + Len(part) - 1) = part

\* C18: when a response with status in 200..299 has a body that is not JSON,
\* the rejection message carries a bounded prefix of the body, and never the
\* whole body when the body is longer than the bound.
C18_BoundedExcerpt ==
  (BodyRead /\ ResponseOk(call.status) /\ ~IsBlank(call.text) /\ ~Parsed.ok) =>
    /\ call.outcome.kind = "rejected"
    /\ \E n \in 1..Len(call.text) :
         n <= ExcerptMax /\ ContainsSeq(call.outcome.message, SubSeq(call.text, 1, n))
    /\ Len(call.text) > ExcerptMax => ~ContainsSeq(call.outcome.message, call.text)

\* ---------------------------------------------------------------------------
\* Screens

ValidUpload(v) == v.t = "obj" /\ Get(v, "resume_id") # JUndefined
OnReadiness == route = "/role-readiness"

\* C19: the Upload screen goes on to /ats-score only with an upload result
\* that is an object with the fields the flow needs; after any other
\* outcome it shows an error and is no longer analyzing.
C19_ValidatedNavigation ==
  /\ upload.navTimer => ValidUpload(upload.result)
  /\ (route = "/ats-score" /\ locationState.data # JUndefined) =>
       ValidUpload(locationState.data)
  /\ (route = "/upload" /\ call.op = "uploadResume" /\ call.pc = "done"
      /\ ~upload.awaiting /\ upload.fileName # "" /\ ~ValidUpload(call.outcome.value)) =>
       (upload.error # <<>> /\ ~upload.isAnalyzing)

\* C20: entered without a role or without a resume_id, RoleReadiness issues
\* no request and ends the loading state; analyzeRole is only ever called
\* with a truthy role and a truthy resume_id.
C20_GuardedAnalysis ==
  [][/\ (/\ OnReadiness
         /\ readiness.pc = "mounted"
         /\ readiness'.pc \notin {"mounted", "unmounted"}
         /\ ~Truthy(locationState.role) \/ ~Truthy(locationState.resume_id)) =>
         (/\ requestsIssued' = requestsIssued
          /\ call' = call
          /\ readiness'.loading = FALSE
          /\ readiness'.pc = "idle")
     /\ call'.op = "analyzeRole" => (call'.args.role # "" /\ call'.args.resumeId # "")]_vars

C20_Witness ==
  /\ OnReadiness
  /\ Truthy(locationState.role)
  /\ ~Truthy(locationState.resume_id)
  /\ readiness.pc = "idle"
  /\ ~readiness.loading
  /\ requestsIssued = 1
  /\ call.op = "uploadResume"

\* ---------------------------------------------------------------------------
\* The body of the response

\* C21: on every path the body of a received response is read as text
\* exactly once: once a response is there one text() call has been made on
\* it or a clone of it, never a second one, and none before a response.
C21_BodyReadOnce ==
  /\ call.bodyReads = IF call.status = 0 THEN 0 ELSE 1
  /\ call.gotText => call.bodyReads = 1

C21_Witness ==
  /\ Done
  /\ call.gotText
  /\ ~ResponseOk(call.status)
  /\ Parsed.ok
  /\ call.bodyReads = 1

\* ---------------------------------------------------------------------------
\* Logging

\* safeParse and the 2xx path with every console statement taken out: the
\* try block is JSON.parse(text) and return parsed, and nothing reads
\* result.resume_id / result.readiness_score.
SuccessBranchWithoutLogs(status, text) ==
  IF text = <<>> THEN Throw(ClientError(EmptyResponseMsg(status)), {})
  ELSE LET p == JSONParse(text) IN
       IF p.ok THEN Return(p.v) ELSE SafeParseCatch(text, SyntaxError)
WithoutLogs(status, text) ==
  IF ResponseOk(status) THEN SuccessBranchWithoutLogs(status, text)
  ELSE ErrorBranch(status, text)

\* C22: no log statement decides the result: whatever the response, the call
\* resolves with the value, or rejects with the message, that the same code
\* without its log statements produces.
C22_LogsDoNotDecide ==
  BodyRead =>
    LET r == WithoutLogs(call.status, call.text) IN
      IF r.threw
        THEN call.outcome.kind = "rejected" /\ call.outcome.message = r.error.message
        ELSE call.outcome.kind = "resolved" /\ call.outcome.value = r.value

\* ---------------------------------------------------------------------------
\* Concurrency

\* The call alone: its request from its own arguments, its outcome from the
\* response that was delivered to it.
StartAlone(c) ==
  IF c.op = "uploadResume" THEN UploadStart(API_BASE_URL, c.args.formData).call
  ELSE AnalyzeStart(API_BASE_URL, c.args.resumeId, c.args.role).call
OutcomeAlone(c, w) == OnText(OnResponse(StartAlone(c), w.status).call, w.text).call.outcome

\* C23: with several calls in flight, under every interleaving, each call's
\* request comes from its own arguments and the base URL, and its outcome
\* from the response delivered to it: no call sees another call's state.
C23_IndependentCalls ==
  \A i \in CallIds :
    LET c == inflight[i]
        w == wire[i]
    IN /\ c.op # "none" => c.request = StartAlone(c).request
       /\ c.pc \in {"awaitFetch", "awaitText", "awaitErrorText"} => c.outcome = NoOutcome
       /\ c.pc \in {"awaitText", "awaitErrorText"} => c.status = w.status
       /\ (c.pc = "done" /\ w.gotText) => c.outcome = OutcomeAlone(c, w)

C23_Witness ==
  /\ inflight[1].pc = "awaitText"
  /\ wire[1].status = 200
  /\ inflight[2].pc = "done"
  /\ wire[2].gotText
  /\ wire[2].status = 500
  /\ inflight[2].outcome.kind = "rejected"
  /\ inflight[1].op = inflight[2].op

\* ---------------------------------------------------------------------------
\* Non-string fields

IsThere(v) == v.t \notin {"undefined", "null"}
RecognizedFields(v) == {i \in 1..Len(ErrorFields) : IsThere(Get(v, ErrorFields[i]))}
Recognized(v) ==
  Get(v, ErrorFields[CHOOSE i \in RecognizedFields(v) : \A j \in RecognizedFields(v) : i <= j])

\* C24: for a response with status outside 200..299 and a JSON body, a
\* recognized field that holds an object, an array or a number gives its
\* JSON.stringify form as the rejection message, and a body with none of
\* message, detail, error gives the raw body text.
C24_StringifiedField ==
  (BodyRead /\ ~ResponseOk(call.status) /\ Parsed.ok /\ Parsed.v.t = "obj") =>
    /\ call.outcome.kind = "rejected"
    /\ (RecognizedFields(Parsed.v) # {} /\ Recognized(Parsed.v).t \in {"obj", "arr", "num"}) =>
         call.outcome.message = JSONStringify(Recognized(Parsed.v))
    /\ RecognizedFields(Parsed.v) = {} => call.outcome.message = call.text

\* ---------------------------------------------------------------------------
\* The Upload page

PendingUploads == {i \in page.awaiting : inflight[i].pc # "done"}
ErrorShown(outcome) ==
  IF outcome.message # <<>> THEN outcome.message ELSE <<Txt("Upload failed")>>

\* C25: loading is true while at least one uploadResume call started by
\* handleUpload is pending, and false once the last one has settled.
C25_LoadingWhilePending ==
  /\ PendingUploads # {} => page.loading
  /\ (page.awaiting = {} /\ page.latest # 0) => ~page.loading

\* C26: once all uploads have settled, what the page shows is the outcome of
\* the file selected last: an earlier call that completes later does not
\* overwrite it.
C26_LatestWins ==
  (page.awaiting = {} /\ page.latest # 0) =>
    LET outcome == inflight[page.latest].outcome IN
      IF outcome.kind = "resolved" THEN page.result = outcome.value
      ELSE page.error = ErrorShown(outcome)

\* C27: the page never holds an error and a result together.
C27_ErrorOrResult == ~(page.error # <<>> /\ page.result # JNull)

\* ---------------------------------------------------------------------------
\* RoleReadiness after the call

AnalysisSettled == readiness.pc = "awaiting" /\ call.pc = "done"
AnalysisFailed ==
  /\ readiness.pc = "settled"
  /\ call.outcome.kind = "rejected" \/ call.outcome.value.t \notin {"obj", "arr"}

\* C28: every analyzeRole call that settles is followed by loading = false;
\* when it rejected, or resolved with null or a value that is not an object,
\* the error is a non-empty message and the displayed fields keep their
\* reset values.
C28_SettledAnalysis ==
  /\ AnalysisSettled ~> ~readiness.loading
  /\ [](AnalysisFailed =>
          /\ ~readiness.error.isNull
          /\ readiness.error.text # <<>>
          /\ readiness.fields = ReadinessFields)

\* ---------------------------------------------------------------------------
\* The flow from the upload to the analysis

\* C29: along Upload -> /ats-score -> /role-selection -> /role-readiness,
\* analyzeRole is called with the resume_id of the value the last
\* uploadResume resolved with and with the role selected last on
\* RoleSelection, and never without a resolved upload before it.
C29_ResumeIdFlow ==
  [][/\ (call'.op = "analyzeRole" /\ call'.pc = "awaitFetch" /\ call' # call) =>
         /\ call.op = "uploadResume"
         /\ call.outcome.kind = "resolved"
         /\ JStr(call'.args.resumeId) = Get(call.outcome.value, "resume_id")
         /\ JStr(call'.args.role) = locationState.role
     /\ (/\ route = "/role-selection"
         /\ route' = "/role-readiness"
         /\ locationState' # NoLocationState) =>
         /\ selectedRole \in RoleTitles
         /\ locationState'.role = JStr(selectedRole)]_vars

C29_Witness ==
  /\ route = "/role-readiness"
  /\ call.op = "analyzeRole"
  /\ call.pc = "awaitFetch"
  /\ call.args.resumeId = "r1"
  /\ call.args.role = "Product Manager"
  /\ readiness.pc = "awaiting"

\* ---------------------------------------------------------------------------
\* The router and the authentication flag

pathname == entries[Len(entries)]

\* navigate(to): a new entry on the history stack, of which the last
\* MaxEntries are kept.
Push(es, to) ==
  IF Len(es) < MaxEntries THEN Append(es, to) ELSE Append(Tail(es), to)

\* <Navigate replace />: the location takes the place of the last entry.
Replace(es, to) == [es EXCEPT ![Len(es)] = to]

\* login() and logout() of the AuthProvider: the flag held in memory.
login == TRUE
logout == FALSE

\* The router renders the route of the location with the flag.
Rendered(es, authenticated) ==
  /\ isAuthenticated' = authenticated
  /\ entries' = es
  /\ element' = router(es[Len(es)], authenticated)
  /\ UNCHANGED <<configVars, clientVars, screenVars, concurrentVars, pageVars>>

\* The effect of a rendered <Navigate replace />; it runs before any event
\* is handled.
NavigateEffect ==
  /\ element.navigate
  /\ Rendered(Replace(entries, element.to), isAuthenticated)

\* handleSubmit, handleGoogleLogin, handleCreateAccount of the Login screen.
LoginSubmit ==
  /\ ~element.navigate
  /\ element.screen = "Login"
  /\ Rendered(Push(entries, "/home"), login)

\* handleLogout of the Layout; the button is shown when isAuthenticated and
\* the location is not /login.
handleLogout ==
  /\ ~element.navigate
  /\ isAuthenticated
  /\ pathname # "/login"
  /\ Rendered(Push(entries, "/login"), logout)

\* navigate(to) of a button or a link of the screen shown.
NavigateTo ==
  \E to \in Paths :
    /\ ~element.navigate
    /\ Rendered(Push(entries, to), isAuthenticated)

\* navigate(-1).
GoBack ==
  /\ ~element.navigate
  /\ Len(entries) > 1
  /\ Rendered(SubSeq(entries, 1, Len(entries) - 1), isAuthenticated)

\* The page is loaded again at the location: the application is mounted
\* anew, and the flag held in memory starts again.
Reload ==
  /\ ~element.navigate
  /\ Rendered(entries, AuthInit)

InitRouter == InitWith(DeployedEnvs)

NextRouter ==
  \/ NavigateEffect
  \/ LoginSubmit
  \/ handleLogout
  \/ NavigateTo
  \/ GoBack
  \/ Reload

SpecRouter == InitRouter /\ [][NextRouter]_vars

\* C30: for any sequence of login, logout and navigation events, a protected
\* screen is rendered only while isAuthenticated is true and at its own
\* path; while it is false a protected path renders the redirect to /login,
\* and while it is true /login renders the redirect to /home; a rendered
\* redirect is followed by its target becoming the location, with the flag
\* as it was.
C30_ProtectedOnlyWhenAuthenticated ==
  /\ [](/\ element.screen \in ProtectedScreens =>
            /\ isAuthenticated
            /\ pathname \in ProtectedPaths
            /\ element.screen = Component[pathname]
        /\ (~isAuthenticated /\ pathname \in ProtectedPaths) =>
            element = Navigate("/login")
        /\ (isAuthenticated /\ pathname = "/login") =>
            element = Navigate("/home"))
  /\ [][element.navigate =>
          /\ pathname' = element.to
          /\ isAuthenticated' = isAuthenticated]_vars

C30_Witness ==
  /\ ~isAuthenticated
  /\ Len(entries) = 2
  /\ entries[1] = "/home"
  /\ pathname = "/upload"
  /\ element = Navigate("/login")

====
